---- MODULE Spec2Model ----
(***************************************************************************)
(* ProductMatcher (product_matching_implementation.py): the hybrid         *)
(* matching loop find_best_matches, attribute extraction, and text         *)
(* normalisation (preprocess_text).                                        *)
(*                                                                         *)
(* Encodings.                                                              *)
(*  - A description is a sequence of words (the text is the words joined   *)
(*    by single spaces); words are made of letters only, so a pattern      *)
(*    \b(a|b|..)\b matches exactly the words equal to an alternative.      *)
(*  - Python's None is None == <<>>, a present value v is Some(v) == <<v>>.*)
(*  - Arrays and data frames are functions on 0..n-1, as the code indexes  *)
(*    them; Python lists built by append are sequences.                    *)
(*  - text_score is held in tenths, attr_score in sixtieths (every         *)
(*    quotient m/n with n <= 5 is exact), weights in hundredths.           *)
(*  - final_score and best_score are binary64 numbers. Such a score is     *)
(*    held as the integer 4 * e + r: e is the real value of the weighted   *)
(*    sum in units of 1/6000, and r in {-1, 0, 1} is the number of units   *)
(*    in the last place by which the double the code computes differs      *)
(*    from the double nearest to e. Two scores compare as the doubles do.  *)
(*  - Confidence_Score is held in hundredths (two decimals).               *)
(*  - preprocess_text works on texts as sequences of one-character         *)
(*    strings.                                                             *)
(***************************************************************************)
EXTENDS Integers, Sequences, FiniteSets, TLC

\* ------------------------------------------------------------ bounds
\* most unstructured items of a run
MaxU == 2
\* catalog sizes up to which descriptions and similarities range over the
\* full input sets
RichCat == 2
\* largest catalog (above TopK, so that pruning cuts candidates off)
MaxCat == 6
\* most pieces an input text of preprocess_text is put together from
MaxPieces == 4
\* how often preprocess_text is applied in a row
MaxApply == 2

\* ------------------------------------------------------------ constants
\* self.weights, in hundredths
WeightSimilarity == 60
WeightAttributes == 40
\* sim_scores.argsort()[-5:]
TopK == 5
\* text_score > 0.7, in tenths
HighTextTenths == 7
\* best_score = -1, as a score: 4 * (-6000)
NoScore == -24000

None == <<>>
Some(v) == <<v>>

\* self.patterns.keys(), in insertion order
Keys == <<"brand", "color", "size", "season", "gender">>
KeySet == {Keys[i] : i \in 1..Len(Keys)}

\* self.patterns: the one-word alternatives of each regular expression
\* (levi's and h&m are not single words; the numeric size alternative
\* needs digits, which the words of the model do not have)
patterns ==
  [brand  |-> {"nike", "adidas", "puma", "vans", "converse", "zara", "gucci", "prada"},
   color  |-> {"black", "white", "blue", "red", "green", "yellow", "navy", "grey",
               "pink", "beige", "brown"},
   size   |-> {"xs", "s", "m", "l", "xl", "xxl"},
   season |-> {"summer", "winter", "autumn", "spring", "fall"},
   gender |-> {"men", "women", "kids", "unisex", "boy", "girl"}]

\* str.lower() on a word
LowerWord(w) ==
  CASE w = "Nike"  -> "nike"
    [] w = "Black" -> "black"
    [] w = "Men"   -> "men"
    [] OTHER       -> w

\* re.search(pattern, text): the first word that is one of the alternatives
RECURSIVE search(_, _)
search(alts, words) ==
  IF words = <<>> THEN None
  ELSE IF LowerWord(Head(words)) \in alts THEN Some(LowerWord(Head(words)))
  ELSE search(alts, Tail(words))

extract_attributes(text) == [key \in KeySet |-> search(patterns[key], text)]

\* key.title()
Title(key) ==
  CASE key = "brand"  -> "Brand"
    [] key = "color"  -> "Color"
    [] key = "size"   -> "Size"
    [] key = "season" -> "Season"
    [] key = "gender" -> "Gender"

\* " | ".join(parts)
RECURSIVE Join(_)
Join(parts) ==
  IF parts = <<>> THEN ""
  ELSE IF Len(parts) = 1 THEN parts[1]
  ELSE parts[1] \o " | " \o Join(Tail(parts))

\* mutant: a kind counts as soon as the unstructured side has a value
PresentOnUnstructured(u, c, key) == u[key] # None

\* if u_attrs[key] and cat_attrs[key]
BothPresent(u, c, key) == u[key] # None /\ c[key] # None

\* The loop over self.patterns.keys() (lines 96-101), from key number i on:
\* [attr_matches, total_checks, current_reasons]
RECURSIVE AttributeLoop(_, _, _, _)
AttributeLoop(u, c, i, acc) ==
  IF i > Len(Keys) THEN acc
  ELSE LET key == Keys[i]
           counted == IF BothPresent(u, c, key)
                      THEN [acc EXCEPT !.total_checks = @ + 1] ELSE acc
           matched == IF BothPresent(u, c, key) /\ u[key] = c[key]
                      THEN [counted EXCEPT
                              !.attr_matches = @ + 1,
                              !.current_reasons =
                                 Append(@, Title(key) \o ": " \o u[key][1])]
                      ELSE counted
       IN  AttributeLoop(u, c, i + 1, matched)

CompareAttributes(u, c) ==
  AttributeLoop(u, c, 1,
                [attr_matches |-> 0, total_checks |-> 0, current_reasons |-> <<>>])

\* mutant: the matches are divided by the number of kinds, not by the
\* number of comparable kinds
AttrScoreOverAllKinds(matches, checks) ==
  IF checks > 0 THEN (60 * matches) \div Len(Keys) ELSE 0

\* attr_score = (attr_matches / total_checks) if total_checks > 0 else 0,
\* in sixtieths
AttrScore(matches, checks) == IF checks > 0 THEN (60 * matches) \div checks ELSE 0

\* The rounding of text_score * 0.60 + attr_score * 0.40 in binary64
\* (two products and a sum, each rounded to nearest): the pairs <<text_score,
\* attr_score>> whose result is one unit in the last place above, and one
\* below, the double nearest to the real sum. For every other pair the
\* result is that double. (0.5 * 0.60 + 0 * 0.40 is 0.3 and
\* 0.0 * 0.60 + 0.75 * 0.40 is 0.30000000000000004.)
RoundedUp ==
  { <<0, 12>>, <<0, 24>>, <<0, 45>>, <<0, 48>>, <<1, 24>>, <<1, 45>>,
    <<1, 48>>, <<2, 45>>, <<2, 48>>, <<3, 45>>, <<3, 60>>, <<5, 45>>,
    <<5, 48>>, <<7, 24>>, <<7, 60>>, <<9, 12>>, <<9, 24>>, <<9, 45>>,
    <<9, 48>>, <<9, 60>> }
RoundedDown ==
  { <<2, 20>>, <<4, 15>>, <<4, 20>>, <<4, 40>>, <<6, 15>>, <<6, 20>>,
    <<7, 36>>, <<8, 30>>, <<8, 40>>, <<10, 12>> }

Rounding(text, attr) ==
  IF <<text, attr>> \in RoundedUp THEN 1
  ELSE IF <<text, attr>> \in RoundedDown THEN -1
  ELSE 0

\* final_score = text_score * 0.60 + attr_score * 0.40, as a score
FinalScore(text, attr) ==
  4 * (6 * text * WeightSimilarity + attr * WeightAttributes) + Rounding(text, attr)

\* the real value a score is nearest to, in units of 1/6000
Exact(score) == (score + 1) \div 4

\* mutant: a later candidate with an equal score replaces the best
BetterOrEqual(final, best) == final >= best

\* mutant: a candidate needs a positive score to become the best
BetterPositive(final, best) == final > best /\ final > 0

\* if final_score > best_score
Better(final, best) == final > best

\* mutant: text_score >= 0.7 counts as high
ReasonStrAtLeast(reasons, text) ==
  IF Join(reasons) = "" /\ text >= HighTextTenths THEN "High Text Similarity"
  ELSE Join(reasons)

\* reason_str of a candidate that becomes the best (lines 114-116)
ReasonStr(reasons, text) ==
  IF Join(reasons) = "" /\ text > HighTextTenths THEN "High Text Similarity"
  ELSE Join(reasons)

\* round(best_score * 100, 2), in hundredths: the real value times 5 / 3 is
\* never half-way between two integers, so the rounding of the double does
\* not show in two decimals
Confidence(best) == (10 * Exact(best) + 3) \div 6

\* a.argsort(): every order of the indices that sorts the values ascending.
\* The default kind, quicksort, is not stable: the order of equal values
\* depends on the build of numpy.
RECURSIVE argsort(_, _)
argsort(a, rem) ==
  IF rem = {} THEN {<<>>}
  ELSE UNION {{<<i>> \o s : s \in argsort(a, rem \ {i})} :
                i \in {j \in rem : \A l \in rem : a[j] <= a[l]}}

\* s[-k:]
LastK(s, k) == IF Len(s) <= k THEN s ELSE SubSeq(s, Len(s) - k + 1, Len(s))

\* s[::-1]
Reverse(s) == [i \in 1..Len(s) |-> s[Len(s) + 1 - i]]

\* mutant: the slice is not reversed
TopIndicesAscending(order) == LastK(order, TopK)

\* sim_scores.argsort()[-5:][::-1], given the outcome of argsort
TopIndices(order) == Reverse(LastK(order, TopK))

\* ------------------------------------------------------------ preprocess_text
\* Characters: the letters of the typo table, three capitals, a digit, the
\* underscore (a word character for \w), two white-space characters and a
\* punctuation character.
LowerChar(ch) ==
  CASE ch = "S" -> "s"
    [] ch = "A" -> "a"
    [] ch = "N" -> "n"
    [] OTHER    -> ch

\* \w
IsWordChar(ch) ==
  ch \in {"s", "a", "n", "t", "l", "d", "v", "y", "S", "A", "N", "7", "_"}

\* \s, and the characters str.split() splits on
IsSpaceChar(ch) == ch \in {" ", "\t"}

\* str.lower()
Lower(s) == [i \in 1..Len(s) |-> LowerChar(s[i])]

IsPrefix(old, s) == Len(old) <= Len(s) /\ SubSeq(s, 1, Len(old)) = old

\* str.replace(old, new): the occurrences of old, left to right and not
\* overlapping
RECURSIVE Replace(_, _, _)
Replace(s, old, new) ==
  IF s = <<>> THEN <<>>
  ELSE IF IsPrefix(old, s)
       THEN new \o Replace(SubSeq(s, Len(old) + 1, Len(s)), old, new)
       ELSE <<Head(s)>> \o Replace(Tail(s), old, new)

\* re.sub(r'[^\w\s]', ' ', text)
SubPunctuation(s) ==
  [i \in 1..Len(s) |-> IF IsWordChar(s[i]) \/ IsSpaceChar(s[i]) THEN s[i] ELSE " "]

\* text.split(): the maximal runs of characters that are not white space;
\* cur is the run being read
RECURSIVE Split(_, _)
Split(s, cur) ==
  IF s = <<>> THEN (IF cur = <<>> THEN <<>> ELSE <<cur>>)
  ELSE IF IsSpaceChar(Head(s))
       THEN (IF cur = <<>> THEN <<>> ELSE <<cur>>) \o Split(Tail(s), <<>>)
       ELSE Split(Tail(s), Append(cur, Head(s)))

\* " ".join(words)
RECURSIVE JoinWords(_)
JoinWords(words) ==
  IF words = <<>> THEN <<>>
  ELSE IF Len(words) = 1 THEN words[1]
  ELSE words[1] \o <<" ">> \o JoinWords(Tail(words))

\* preprocess_text(text); a missing value (pd.isna) is [isna |-> TRUE]
preprocess_text(t) ==
  IF t.isna THEN <<>>
  ELSE LET lowered == Lower(t.chars)
           fixed   == Replace(Replace(lowered,
                                      <<"s", "a", "n", "t", "a", "l", "s">>,
                                      <<"s", "a", "n", "d", "a", "l", "s">>),
                              <<"n", "a", "a", "v", "y">>,
                              <<"n", "a", "v", "y">>)
       IN  JoinWords(Split(SubPunctuation(fixed), <<>>))

\* the pieces input texts are put together from
\* (san + tals and na + avy make the typos; santal + san + tals makes two
\* occurrences of santals that share an s)
Pieces ==
  { <<"s", "a", "n">>, <<"S", "A", "N">>, <<"t", "a", "l", "s">>,
    <<"s", "a", "n", "t", "a", "l">>,
    <<"n", "a">>, <<"a", "v", "y">>, <<"7">>,
    <<".">>, <<" ">>, <<"\t">>, <<"_">> }

RECURSIVE Concat(_)
Concat(ps) == IF ps = <<>> THEN <<>> ELSE Head(ps) \o Concat(Tail(ps))

Texts ==
  {[isna |-> TRUE, chars |-> <<>>]}
  \cup {[isna |-> FALSE, chars |-> Concat(ps)] :
          ps \in UNION {[1..n -> Pieces] : n \in 0..MaxPieces}}

\* ------------------------------------------------------------ inputs
Descriptions ==
  { <<"Nike", "black", "shoe">>,
    <<"nike", "red", "shoe">>,
    <<"generic", "item">>,
    <<"red", "shirt">>,
    <<"m", "shirt">> }

\* the descriptions of runs with several unstructured items
ManyDescriptions == { <<"Nike", "black", "shoe">>, <<"generic", "item">> }

\* the descriptions of runs whose fused scores differ by rounding alone
FloatItem == <<"Nike", "black", "m", "summer">>
FloatDescriptions == { <<"generic", "item">>, <<"nike", "black", "m", "winter">> }

\* similarity values, in tenths
TextScores == {0, 7, 10}
PoolScores == {0, 10}
FloatScores == {0, 5, 10}

\* catalog row number i
CatalogRow(i, d) == [Product_ID |-> 101 + i, Description |-> d]

Catalogs(n, descs) ==
  {[i \in 0..(n - 1) |-> CatalogRow(i, f[i])] : f \in [0..(n - 1) -> descs]}

\* the value of the id column in unstructured row number i, when the data
\* has that column
UnstructuredId(i) == 7 + i

\* self.unstructured: rows with a description and, when hasid, an id column
\* (id is None in every row of data without the column)
Unstructureds(n, descs, idcolumn) ==
  {[i \in 0..(n - 1) |->
      [id |-> IF hasid THEN Some(UnstructuredId(i)) ELSE None,
       description |-> f[i]]] :
     f \in [0..(n - 1) -> descs], hasid \in idcolumn}

\* row.get('id', default): the id column when the row has one
RowGetId(row, default) == IF row.id # None THEN row.id[1] ELSE default

Matrices(r, c, scores) ==
  {[shape |-> <<r, c>>, data |-> m] : m \in [0..(r - 1) -> [0..(c - 1) -> scores]]}

VARIABLES catalog, unstructured, similarity_matrix,
          pc, idx, u_attrs, top_indices, pos,
          best_score, best_match_row, match_reason_parts,
          cat_idx, attr_matches, total_checks, current_reasons,
          attr_score, text_score, final_score,
          results, results_df,
          text, processed

inputs == <<catalog, unstructured, similarity_matrix>>
locals == <<cat_idx, attr_matches, total_checks, current_reasons,
            attr_score, text_score, final_score>>
best == <<best_score, best_match_row, match_reason_parts>>
norm == <<text, processed>>
vars == <<catalog, unstructured, similarity_matrix,
          pc, idx, u_attrs, top_indices, pos,
          best_score, best_match_row, match_reason_parts,
          cat_idx, attr_matches, total_checks, current_reasons,
          attr_score, text_score, final_score,
          results, results_df,
          text, processed>>

NU == Cardinality(DOMAIN unstructured)
NCat == Cardinality(DOMAIN catalog)
Rows == similarity_matrix.shape[1]
Cols == similarity_matrix.shape[2]

\* the state at the entry of find_best_matches
AtEntry ==
  /\ pc = "loop" /\ idx = 0
  /\ u_attrs = [key \in KeySet |-> None]
  /\ top_indices = <<>> /\ pos = 1
  /\ best_score = NoScore /\ best_match_row = None /\ match_reason_parts = ""
  /\ cat_idx = 0 /\ attr_matches = 0 /\ total_checks = 0
  /\ current_reasons = <<>> /\ attr_score = 0 /\ text_score = 0 /\ final_score = 0
  /\ results = <<>> /\ results_df = None

\* no text under normalisation
NoText == text = [isna |-> TRUE, chars |-> <<>>] /\ processed = <<>>

\* one unstructured item (no id column) against a small catalog, every
\* description and similarity value
InitRich ==
  /\ \E n \in 0..RichCat :
       /\ catalog \in Catalogs(n, Descriptions)
       /\ unstructured \in Unstructureds(1, Descriptions, {FALSE})
       /\ similarity_matrix \in Matrices(1, n, TextScores)
  /\ AtEntry /\ NoText

\* several unstructured items, with or without an id column, against a
\* catalog of at most one item
InitMany ==
  /\ \E u \in 0..MaxU, n \in 0..1 :
       /\ catalog \in Catalogs(n, ManyDescriptions)
       /\ unstructured \in Unstructureds(u, ManyDescriptions, BOOLEAN)
       /\ similarity_matrix \in Matrices(u, n, TextScores)
  /\ AtEntry /\ NoText

\* one unstructured item (with an id column) against a large catalog of
\* equal descriptions
InitPool ==
  /\ \E n \in (RichCat + 1)..MaxCat :
       /\ catalog \in Catalogs(n, {<<"Nike", "black", "shoe">>})
       /\ unstructured \in Unstructureds(1, {<<"Nike", "black", "shoe">>}, {TRUE})
       /\ similarity_matrix \in Matrices(1, n, PoolScores)
  /\ AtEntry /\ NoText

\* one unstructured item against catalog items that agree with it on three
\* of four attribute kinds or on none, at similarities 0.0, 0.5 and 1.0:
\* 0.5 * 0.60 and 0.75 * 0.40 are the same real number and different doubles
InitFloat ==
  /\ \E n \in 1..RichCat :
       /\ catalog \in Catalogs(n, FloatDescriptions)
       /\ unstructured \in Unstructureds(1, {FloatItem}, {FALSE})
       /\ similarity_matrix \in Matrices(1, n, FloatScores)
  /\ AtEntry /\ NoText

Init == InitRich \/ InitMany \/ InitPool \/ InitFloat

\* ------------------------------------------------------------ actions
\* for idx, row in self.unstructured.iterrows(): lines 76-85
StartItem ==
  /\ pc = "loop" /\ idx < NU
  /\ u_attrs' = extract_attributes(unstructured[idx].description)
  /\ IF idx >= Rows
     THEN \* self.similarity_matrix[idx] raises IndexError
          /\ pc' = "IndexError"
          /\ UNCHANGED <<top_indices, pos, best>>
     ELSE /\ \E order \in argsort(similarity_matrix.data[idx], 0..(Cols - 1)) :
               top_indices' = TopIndices(order)
          /\ pos' = 1
          /\ best_score' = NoScore
          /\ best_match_row' = None
          /\ match_reason_parts' = ""
          /\ pc' = "candidates"
  /\ UNCHANGED <<inputs, idx, locals, results, results_df, norm>>

\* for cat_idx in top_indices: lines 87-117
ScoreCandidate ==
  /\ pc = "candidates" /\ pos <= Len(top_indices)
  /\ cat_idx' = top_indices[pos]
  /\ IF top_indices[pos] >= NCat
     THEN \* self.catalog.iloc[cat_idx] raises IndexError
          /\ pc' = "IndexError"
          /\ UNCHANGED <<pos, best, attr_matches, total_checks, current_reasons,
                         attr_score, text_score, final_score>>
     ELSE LET cat_row == catalog[top_indices[pos]]
              cat_attrs == extract_attributes(cat_row.Description)
              cmp == CompareAttributes(u_attrs, cat_attrs)
              as == AttrScore(cmp.attr_matches, cmp.total_checks)
              ts == similarity_matrix.data[idx][top_indices[pos]]
              fs == FinalScore(ts, as)
          IN  /\ attr_matches' = cmp.attr_matches
              /\ total_checks' = cmp.total_checks
              /\ current_reasons' = cmp.current_reasons
              /\ attr_score' = as
              /\ text_score' = ts
              /\ final_score' = fs
              /\ IF Better(fs, best_score)
                 THEN /\ best_score' = fs
                      /\ best_match_row' = Some(cat_row)
                      /\ match_reason_parts' = ReasonStr(cmp.current_reasons, ts)
                 ELSE UNCHANGED best
              /\ pos' = pos + 1
              /\ pc' = pc
  /\ UNCHANGED <<inputs, idx, u_attrs, top_indices, results, results_df, norm>>

\* results.append({...}): lines 120-127
MatchResult ==
  [Unstructured_ID      |-> RowGetId(unstructured[idx], idx),
   Original_Description |-> unstructured[idx].description,
   Matched_Product_ID   |-> IF best_match_row # None
                            THEN Some(best_match_row[1].Product_ID) ELSE None,
   Matched_Description  |-> IF best_match_row # None
                            THEN Some(best_match_row[1].Description) ELSE None,
   Confidence_Score     |-> Confidence(best_score),
   Match_Reason         |-> IF match_reason_parts # "" THEN match_reason_parts
                            ELSE "Low Confidence Match"]

AppendResult ==
  /\ pc = "candidates" /\ pos > Len(top_indices)
  /\ results' = Append(results, MatchResult)
  /\ idx' = idx + 1
  /\ pc' = "loop"
  /\ UNCHANGED <<inputs, u_attrs, top_indices, pos, best, locals, results_df, norm>>

\* self.results_df = pd.DataFrame(results); return: lines 129-130
Return ==
  /\ pc = "loop" /\ idx = NU
  /\ results_df' = Some(results)
  /\ pc' = "done"
  /\ UNCHANGED <<inputs, idx, u_attrs, top_indices, pos, best, locals, results, norm>>

Next == StartItem \/ ScoreCandidate \/ AppendResult \/ Return

Spec == Init /\ [][Next]_vars

\* find_best_matches reads self.similarity_matrix whatever its shape: a
\* matrix whose shape need not be that of the item collections
InitAny ==
  /\ \E u \in 0..MaxU, n \in 0..RichCat, r \in 0..MaxU, c \in 0..RichCat :
       /\ catalog \in Catalogs(n, {<<"generic", "item">>})
       /\ unstructured \in Unstructureds(u, {<<"generic", "item">>}, BOOLEAN)
       /\ similarity_matrix \in Matrices(r, c, PoolScores)
  /\ AtEntry /\ NoText

SpecAny == InitAny /\ [][Next]_vars

\* ------------------------------------------------------------ claims
\* What the claims speak of, stated over the inputs alone.

ShapesMatch == Rows = NU /\ Cols = NCat

\* the attributes of unstructured item i and of catalog item c
UAttrs(i) == extract_attributes(unstructured[i].description)
CAttrs(c) == extract_attributes(catalog[c].Description)

\* attribute kinds with a value on both sides, and those whose values agree
Comparable(i, c) == {k \in KeySet : UAttrs(i)[k] # None /\ CAttrs(c)[k] # None}
Agreeing(i, c) == {k \in Comparable(i, c) : UAttrs(i)[k] = CAttrs(c)[k]}

\* matchCount / comparableCount, in sixtieths (0 when nothing is comparable)
Agreement(i, c) ==
  IF Comparable(i, c) = {} THEN 0
  ELSE (60 * Cardinality(Agreeing(i, c))) \div Cardinality(Comparable(i, c))

\* the fused score 0.60 * textScore + 0.40 * attributeScore of the pair, as
\* the double the weighted sum evaluates to (held as a score)
Fused(i, c) ==
  4 * (360 * similarity_matrix.data[i][c] + 40 * Agreement(i, c))
  + Rounding(similarity_matrix.data[i][c], Agreement(i, c))

\* the "<Kind>: <value>" fragments of the pair, in attribute-kind order
Fragments(i, c) ==
  LET ks == SelectSeq(Keys, LAMBDA k : k \in Agreeing(i, c))
  IN  [j \in 1..Len(ks) |-> Title(ks[j]) \o ": " \o UAttrs(i)[ks[j]][1]]

\* the explanation of a result whose winner is catalog item c
Explanation(i, c) ==
  IF Fragments(i, c) # <<>> THEN Join(Fragments(i, c))
  ELSE IF similarity_matrix.data[i][c] > 7 THEN "High Text Similarity"
  ELSE "Low Confidence Match"

\* result number i + 1 is that of unstructured item i
ResultOf(i) == results[i + 1]
Emitted == {i \in DOMAIN unstructured : i + 1 <= Len(results)}

\* the result names catalog item c
Names(r, c) ==
  /\ r.Matched_Product_ID = Some(catalog[c].Product_ID)
  /\ r.Matched_Description = Some(catalog[c].Description)

\* The item whose result was appended last, while its candidate pool is
\* still in top_indices.
JustEmitted == pc = "loop" /\ idx > 0
Last == idx - 1
Visited == 1..Len(top_indices)

\* C1: every emitted result has 0 <= Confidence_Score <= 100.
C1_ConfidenceInRange ==
  \A i \in Emitted :
    ResultOf(i).Confidence_Score >= 0 /\ ResultOf(i).Confidence_Score <= 10000

\* C2: with an empty catalog every result has null matched fields,
\* confidence 0 and the reason "Low Confidence Match".
C2_EmptyCatalogResult ==
  NCat = 0 =>
    \A i \in Emitted :
      /\ ResultOf(i).Matched_Product_ID = None
      /\ ResultOf(i).Matched_Description = None
      /\ ResultOf(i).Confidence_Score = 0
      /\ ResultOf(i).Match_Reason = "Low Confidence Match"

\* C3: a result's Matched_Product_ID is null exactly when the catalog (and
\* so the candidate pool) was empty; otherwise the result names one catalog
\* item, with the description of that same item.
C3_NullIffPoolEmpty ==
  \A i \in Emitted :
    /\ ResultOf(i).Matched_Product_ID = None <=> NCat = 0
    /\ ResultOf(i).Matched_Description = None <=> NCat = 0
    /\ NCat > 0 => \E c \in DOMAIN catalog : Names(ResultOf(i), c)

\* C3's case: a catalog item is named although every candidate's text score
\* and attribute score are 0.
C3_Witness ==
  \E i \in Emitted :
    /\ ResultOf(i).Matched_Product_ID # None
    /\ \A c \in DOMAIN catalog : Fused(i, c) = 0

\* C5: with a non-empty pool, the reason is that of the winning candidate
\* alone: its fragments joined by " | " in attribute-kind order, else "High
\* Text Similarity" when its text score is above 0.7, else "Low Confidence
\* Match"; and the reason is never empty.
C5_ReasonOfWinner ==
  \A i \in Emitted :
    /\ ResultOf(i).Match_Reason # ""
    /\ \A c \in DOMAIN catalog :
         Names(ResultOf(i), c) => ResultOf(i).Match_Reason = Explanation(i, c)

\* C5's case: the candidate visited last had fragments and did not win; the
\* winner has none and a text score above 0.7.
C5_Witness ==
  /\ JustEmitted
  /\ current_reasons # <<>>
  /\ ResultOf(Last).Match_Reason = "High Text Similarity"

\* the visiting orders a run may use for unstructured item i: one for each
\* order in which argsort may leave equal similarities
OrdersOf(i) ==
  {TopIndices(o) : o \in argsort(similarity_matrix.data[i], DOMAIN catalog)}

\* the first position of a non-empty visiting order that attains the
\* largest fused score of the order
FirstMaximum(i, order) ==
  CHOOSE w \in 1..Len(order) :
    \A p \in 1..Len(order) :
      /\ Fused(i, order[p]) <= Fused(i, order[w])
      /\ p < w => Fused(i, order[p]) < Fused(i, order[w])

\* the result of unstructured item i in a run that visits its candidates in
\* this order
ResultFor(i, order) ==
  LET c == order[FirstMaximum(i, order)]
  IN  [Unstructured_ID      |-> IF unstructured[i].id = None THEN i
                                ELSE unstructured[i].id[1],
       Original_Description |-> unstructured[i].description,
       Matched_Product_ID   |-> IF order = <<>> THEN None
                                ELSE Some(catalog[c].Product_ID),
       Matched_Description  |-> IF order = <<>> THEN None
                                ELSE Some(catalog[c].Description),
       Confidence_Score     |-> IF order = <<>> THEN -10000
                                ELSE (10 * Exact(Fused(i, c)) + 3) \div 6,
       Match_Reason         |-> IF order = <<>> THEN "Low Confidence Match"
                                ELSE Explanation(i, c)]

Preferred(i, a, b) ==
  \/ similarity_matrix.data[i][a] > similarity_matrix.data[i][b]
  \/ similarity_matrix.data[i][a] = similarity_matrix.data[i][b] /\ a < b

Min(a, b) == IF a <= b THEN a ELSE b
Pool == {top_indices[p] : p \in Visited}

C9_SmallerIndexPreferred ==
  pc = "candidates" =>
    /\ Len(top_indices) = Min(5, NCat)
    /\ \A p, q \in Visited : p < q => Preferred(idx, top_indices[p], top_indices[q])
    /\ \A c \in Pool, j \in DOMAIN catalog \ Pool : Preferred(idx, c, j)

\* C9, amended: the pool is min(5, catalog size) distinct catalog indices,
\* none of them with a smaller similarity than an index left out, visited in
\* descending similarity; nothing is promised about equal similarities.
C9_TopFiveDescending ==
  pc = "candidates" =>
    /\ Len(top_indices) = Min(5, NCat)
    /\ Pool \subseteq DOMAIN catalog
    /\ Cardinality(Pool) = Len(top_indices)
    /\ \A p, q \in Visited :
         p < q => similarity_matrix.data[idx][top_indices[p]]
                    >= similarity_matrix.data[idx][top_indices[q]]
    /\ \A c \in Pool, j \in DOMAIN catalog \ Pool :
         similarity_matrix.data[idx][c] >= similarity_matrix.data[idx][j]

\* C9's case: the catalog is larger than the pool, the pool holds different
\* similarities, and a tie at the cut-off went to the larger catalog index.
C9_Witness ==
  /\ pc = "candidates"
  /\ NCat > 5
  /\ \E p, q \in Visited :
       similarity_matrix.data[idx][top_indices[p]]
         > similarity_matrix.data[idx][top_indices[q]]
  /\ \E c \in Pool, j \in DOMAIN catalog \ Pool :
       similarity_matrix.data[idx][c] = similarity_matrix.data[idx][j] /\ j < c

\* C10: the candidate scored last has total_checks = the number of attribute
\* kinds with a value on both sides, attr_matches = the number of those
\* whose values are equal, attr_score = attr_matches / total_checks (0 when
\* total_checks is 0), and final_score = 0.60 * text_score + 0.40 *
\* attr_score as binary64 evaluates it (the double nearest to the real sum,
\* or a neighbour of it), text_score being its entry of the similarity row.
C10_AttributeAndFusedScore ==
  pc = "candidates" /\ pos > 1 =>
    /\ cat_idx = top_indices[pos - 1]
    /\ total_checks = Cardinality(Comparable(idx, cat_idx))
    /\ attr_matches = Cardinality(Agreeing(idx, cat_idx))
    /\ total_checks > 0 => attr_score * total_checks = 60 * attr_matches
    /\ total_checks = 0 => attr_score = 0
    /\ text_score = similarity_matrix.data[idx][cat_idx]
    /\ Exact(final_score) = 360 * text_score + 40 * attr_score
    /\ final_score = 4 * Exact(final_score) + Rounding(text_score, attr_score)

\* C10's case: the unstructured item has only a color, the candidate only a
\* size; no kind is comparable and the fused score is the text part alone.
C10_Witness ==
  /\ pc = "candidates" /\ pos > 1
  /\ {k \in KeySet : UAttrs(idx)[k] # None} = {"color"}
  /\ {k \in KeySet : CAttrs(cat_idx)[k] # None} = {"size"}
  /\ total_checks = 0 /\ attr_score = 0
  /\ text_score > 0 /\ final_score = 4 * 360 * text_score

\* the description of unstructured item i is that of catalog item c, word
\* for word, and the similarity matrix scores the pair 1.0
SameText(i, c) ==
  /\ catalog[c].Description = unstructured[i].description
  /\ similarity_matrix.data[i][c] = 10

HasAttribute(i) == \E k \in KeySet : UAttrs(i)[k] # None

\* C4 as stated: an unstructured item whose description equals that of
\* catalog item c is matched to c with Confidence_Score >= 90, whether or
\* not an attribute is extractable and whether or not other catalog items
\* carry the same description.
C4_EqualTextSelected ==
  JustEmitted =>
    \A c \in DOMAIN catalog :
      SameText(Last, c) =>
        /\ Names(ResultOf(Last), c)
        /\ ResultOf(Last).Confidence_Score >= 9000

\* C4, amended: if at least one attribute is extractable from the
\* description and c is in the candidate pool, Confidence_Score >= 90 and
\* the selected item is c or a candidate visited before c that also has text
\* score 1.0 and full attribute agreement.
C4_EqualTextWithAttributes ==
  JustEmitted =>
    \A p \in Visited :
      SameText(Last, top_indices[p]) /\ HasAttribute(Last) =>
        /\ ResultOf(Last).Confidence_Score >= 9000
        /\ \E q \in 1..p :
             /\ Names(ResultOf(Last), top_indices[q])
             /\ Fused(Last, top_indices[q]) = 24000

\* C4's case: two catalog items carry the description of the unstructured
\* item, which has attributes; the one visited first is selected.
C4_Witness ==
  /\ JustEmitted /\ HasAttribute(Last)
  /\ \E p, q \in Visited :
       /\ p < q
       /\ SameText(Last, top_indices[p]) /\ SameText(Last, top_indices[q])
       /\ Names(ResultOf(Last), top_indices[p])
       /\ ResultOf(Last).Confidence_Score = 10000

\* C7: a similarity matrix whose shape is not that of the item collections
\* is rejected at entry: no item is scored and no result is built.
C7_MismatchRejected == ~ShapesMatch => results = <<>>

\* ------------------------------------------------------------ normalisation
\* preprocess_text applied to a text, then to its own output
InitNorm ==
  /\ catalog \in Catalogs(0, Descriptions)
  /\ unstructured \in Unstructureds(0, Descriptions, {FALSE})
  /\ similarity_matrix \in Matrices(0, 0, TextScores)
  /\ AtEntry
  /\ text \in Texts
  /\ processed = <<>>

Normalize ==
  /\ Len(processed) < MaxApply
  /\ processed' =
       Append(processed,
              preprocess_text(IF processed = <<>> THEN text
                              ELSE [isna |-> FALSE, chars |-> processed[Len(processed)]]))
  /\ UNCHANGED <<inputs, pc, idx, u_attrs, top_indices, pos, best, locals,
                 results, results_df, text>>

NextNorm == Normalize

SpecNorm == InitNorm /\ [][NextNorm]_vars

\* C8: preprocess_text applied to its own output returns it unchanged.
C8_Idempotent ==
  \A k \in 2..Len(processed) : processed[k] = processed[k - 1]
====
